---- MODULE Spec2Model ----
(***************************************************************************)
(* A model of the bytecode interpreter of ai-compiler                      *)
(* (src/ai-compiler/src/interpreter.rs): the Interpreter struct, its       *)
(* registration calls, reset(), step() with the verification pass, and the *)
(* instruction dispatch.  Addresses are 0-based as in the source; the      *)
(* program is a TLA+ sequence, so the instruction at address a is          *)
(* program[a + 1].                                                         *)
(***************************************************************************)
EXTENDS Integers, Sequences, FiniteSets, TLC

(***************************************************************************)
(* Bounds of the model.                                                    *)
(***************************************************************************)
\* number literals pushed by the arithmetic programs are MinNum..MaxNum
MaxNum == 2
MinNum == 0 - 1
\* length of the programs made of capability references and labels
MaxRefLen == 2
\* step() is not taken when it would push a frame beyond this call depth
MaxDepth == 2

(***************************************************************************)
(* Value (crate::compiler::Value as the interpreter uses it): Number(f64), *)
(* String, Bool.  All values are records of one shape so that TLC can      *)
(* compare them.  A number is a normalised rational <<num, den>> with      *)
(* den > 0; den = 0 encodes the non-finite results of a division:          *)
(* <<1,0>> = +inf, <<-1,0>> = -inf, <<0,0>> = NaN.  Rounding and the sign  *)
(* of zero are not modelled.                                               *)
(***************************************************************************)
Sign(i) == IF i > 0 THEN 1 ELSE IF i < 0 THEN 0 - 1 ELSE 0

AbsInt(i) == IF i < 0 THEN 0 - i ELSE i

RECURSIVE Gcd(_, _)
Gcd(a, b) == IF b = 0 THEN a ELSE Gcd(b, a % b)

Norm(p, q) ==
    IF q = 0 THEN <<Sign(p), 0>>
    ELSE LET g == Gcd(AbsInt(p), AbsInt(q))
         IN  <<(Sign(q) * p) \div g, AbsInt(q) \div g>>

Finite(x) == x[2] # 0

NumberV(x) == [t |-> "Number", n |-> x, s |-> "", b |-> FALSE]

Num(i) == NumberV(<<i, 1>>)

Str(s) == [t |-> "String", n |-> <<0, 1>>, s |-> s, b |-> FALSE]

Bool(b) == [t |-> "Bool", n |-> <<0, 1>>, s |-> "", b |-> b]

RECURSIVE IntPow(_, _)
IntPow(m, k) == IF k = 0 THEN 1 ELSE m * IntPow(m, k - 1)

\* f64 arithmetic `m OP n` on finite operands (m is the left operand).
\* No program of the model feeds a non-finite operand to an instruction, and
\* Exp is given integer exponents only: other cases are left undefined.
NumOp(op, m, n) ==
    CASE op = "Add" /\ Finite(m) /\ Finite(n) ->
            Norm(m[1] * n[2] + n[1] * m[2], m[2] * n[2])
      [] op = "Sub" /\ Finite(m) /\ Finite(n) ->
            Norm(m[1] * n[2] - n[1] * m[2], m[2] * n[2])
      [] op = "Mul" /\ Finite(m) /\ Finite(n) ->
            Norm(m[1] * n[1], m[2] * n[2])
      [] op = "Div" /\ Finite(m) /\ Finite(n) ->
            Norm(m[1] * n[2], m[2] * n[1])
      [] op = "Mod" /\ Finite(m) /\ Finite(n) ->
            \* Rust's % on f64 is the truncated remainder; x % 0.0 is NaN
            IF n[1] = 0 THEN <<0, 0>>
            ELSE LET p == m[1] * n[2]
                     q == m[2] * n[1]
                     tr == Sign(p) * Sign(q) * (AbsInt(p) \div AbsInt(q))
                 IN  Norm(m[1] * n[2] - tr * n[1] * m[2], m[2] * n[2])
      [] op = "Exp" /\ Finite(m) /\ Finite(n) /\ n[2] = 1 ->
            IF n[1] >= 0
            THEN Norm(IntPow(m[1], n[1]), IntPow(m[2], n[1]))
            ELSE Norm(IntPow(m[2], 0 - n[1]), IntPow(m[1], 0 - n[1]))

\* f64 comparison `m OP n` on finite operands (m is the left operand).
NumCmp(op, m, n) ==
    CASE op = "Lt" /\ Finite(m) /\ Finite(n) -> m[1] * n[2] < n[1] * m[2]
      [] op = "Le" /\ Finite(m) /\ Finite(n) -> m[1] * n[2] <= n[1] * m[2]
      [] op = "Gt" /\ Finite(m) /\ Finite(n) -> m[1] * n[2] > n[1] * m[2]
      [] op = "Ge" /\ Finite(m) /\ Finite(n) -> m[1] * n[2] >= n[1] * m[2]

\* Value's == as `a == b` in Eq/Ne uses it (NaN is not equal to itself).
ValueEq(a, b) ==
    /\ a.t = b.t
    /\ CASE a.t = "Number" -> a.n = b.n /\ a.n # <<0, 0>>
         [] a.t = "String" -> a.s = b.s
         [] a.t = "Bool" -> a.b = b.b

\* Value::truthy() is defined in the compiler module; a Bool is its own truth
\* value and the coercion of the other kinds is the unknown u.
Truthy(v, u) == IF v.t = "Bool" THEN v.b ELSE u

(***************************************************************************)
(* Op: every instruction is a record [op, a, name, v].                     *)
(***************************************************************************)
NoValue == Bool(FALSE)

Ins(o) == [op |-> o, a |-> 0, name |-> "", v |-> NoValue]

InsA(o, a) == [op |-> o, a |-> a, name |-> "", v |-> NoValue]

InsN(o, name) == [op |-> o, a |-> 0, name |-> name, v |-> NoValue]

Push(v) == [op |-> "Push", a |-> 0, name |-> "", v |-> v]

NumericOps == {"Sub", "Mul", "Div", "Mod", "Exp"}

CompareOps == {"Lt", "Le", "Gt", "Ge"}

LogicOps == {"And", "Or", "Xor"}

BinaryOps == {"Add"} \cup NumericOps \cup CompareOps \cup LogicOps \cup {"Eq", "Ne"}

RefOps == {"Get", "Set", "Call", "CallParallel", "CallRace"}

(***************************************************************************)
(* The host's capabilities.  A callable or property instance is known by   *)
(* its identity; a property instance has a fixed settable() answer.        *)
(***************************************************************************)
Names == {"x", "g"}

CallableInsts == {"c1", "c2"}

PropInsts == {[id |-> "p1", settable |-> TRUE], [id |-> "p2", settable |-> FALSE]}

\* what a property's get() may return
PropVals == {Num(1), Bool(FALSE)}

(***************************************************************************)
(* The programs the interpreter is constructed on.                         *)
(***************************************************************************)
RefIns == {InsN(o, n) : o \in RefOps \cup {"Label"}, n \in Names}

SeqsUpTo(S, k) == UNION {[1..j -> S] : j \in 0..k}

\* every program of up to MaxRefLen capability references and labels
RefPrograms == SeqsUpTo(RefIns, MaxRefLen)

\* groups as the compiler lays them out (guard jump, Label, body), called
\* from before and from after their definition; "Return" stands for an
\* instruction step() has no arm for, placed where the group body ends
GroupPrograms ==
    { <<InsN("Call", "g"), InsA("Jump", 5), InsN("Label", "g"), Push(Num(1)),
        InsN("Call", "x")>>,
      <<InsA("Jump", 4), InsN("Label", "g"), Push(Num(1)), InsN("Call", "x"),
        InsN("Call", "g"), Push(Num(2))>>,
      <<InsA("Jump", 4), InsN("Label", "g"), Push(Num(1)), Ins("Return"),
        InsN("Call", "g"), Push(Num(2))>>,
      <<Push(Num(2)), InsN("Call", "g"), InsN("Call", "x"), InsA("Jump", 7),
        InsN("Label", "g"), InsA("Load", 0), InsN("Call", "x")>> }

Programs == RefPrograms \cup GroupPrograms

NumLits == {Num(i) : i \in MinNum..MaxNum}

Lits == NumLits \cup {Str("foo"), Str("bar"), Bool(TRUE)}

\* one instruction applied to literal operands (and to too few operands)
ArithPrograms ==
    { <<Push(a), Push(b), Ins(o)>> : a \in Lits, b \in Lits, o \in BinaryOps }
    \cup { <<Push(a), Ins(o)>> : a \in Lits, o \in BinaryOps \cup {"Neg", "Abs"} }
    \cup { <<Ins(o)>> : o \in BinaryOps \cup {"Neg", "Abs"} }

(***************************************************************************)
(* State: the fields of struct Interpreter, and a record of the last call  *)
(* the host made and of what it returned.                                  *)
(***************************************************************************)
VARIABLES
    program,      \* Vec<Op>
    ip,           \* usize
    stack,        \* Vec<Value>
    call_stack,   \* Vec<StackFrame>
    props,        \* HashMap<String, Box<dyn Prop>>: name -> instance
    callables,    \* HashMap<String, Box<dyn Callable>>: name -> instance
    groups,       \* HashMap<String, usize>: name -> address of its Label
    running,      \* bool
    call,         \* the last call of the host: [op, name]
    result,       \* what that call returned: [state, err]
    errors,       \* the error list the last verification pass built
    invoked,      \* the capabilities the last step() invoked, in order
    fetched,      \* address of the instruction the last step() dispatched, or -1
    steps,        \* the step() calls made so far by the last interpret() call
    compiler,     \* AiCompiler.compiler: Option<Compiler>
    compiled      \* the Compiler the last AiCompiler::compile() compiled with

vars == <<program, ip, stack, call_stack, props, callables, groups, running,
          call, result, errors, invoked, fetched, steps, compiler, compiled>>

\* what the calls on the Interpreter other than interpret() leave alone
beside == <<steps, compiler, compiled>>

machine == <<ip, stack, call_stack, running>>

tables == <<props, callables, groups>>

(***************************************************************************)
(* crate::error::Error as the interpreter constructs it.                   *)
(***************************************************************************)
Error(kind, addr, name, msg) == [kind |-> kind, addr |-> addr, name |-> name, msg |-> msg]

NoError == Error("", 0 - 1, "", "")

Ok(state) == [state |-> state, err |-> NoError]

Err(e) == [state |-> "Err", err |-> e]

\* a panic (todo!(), indexing a missing key, unwrap() on None)
Panic == [state |-> "Panic", err |-> NoError]

StackUnderflow(m) == Error("StackUnderflow", m.ip - 1, "", "")

IndexOutOfBounds(m) == Error("IndexOutOfBounds", m.ip - 1, "", "")

TypeError(msg) == Error("Type", 0 - 1, "", msg)

(***************************************************************************)
(* The instruction dispatch of step().  m is the record [ip, stack,        *)
(* call_stack, running] with ip already advanced past the instruction; an  *)
(* outcome is the machine after the instruction, what step() returns, and  *)
(* the capabilities it invoked.                                            *)
(***************************************************************************)
Machine == [ip |-> ip, stack |-> stack, call_stack |-> call_stack, running |-> running]

Top(s) == s[Len(s)]

ButLast(s) == SubSeq(s, 1, Len(s) - 1)

Outcome(m, res, inv) == [m |-> m, res |-> res, inv |-> inv]

Continue(m) == Outcome(m, Ok("Continue"), <<>>)

Fail(m, e) == Outcome(m, Err(e), <<>>)

PushV(m, v) == [m EXCEPT !.stack = Append(m.stack, v)]

\* StackFrame
Frame_ReturnsToCall(return_addr, offset) ==
    [return_addr |-> return_addr - 1, stack_offset |-> offset]

Frame(return_addr, offset) == [return_addr |-> return_addr, stack_offset |-> offset]

\* fn stack_offset
stack_offset(m) == IF m.call_stack = <<>> THEN 0 ELSE Top(m.call_stack).stack_offset

\* one use of a capability: get(), set() or call(), and what call() returned
Invocation(kind, name, ret) == [kind |-> kind, name |-> name, ret |-> ret]

ExecLoad(m, a) ==
    LET offset == stack_offset(m)
    IN  IF offset + a < Len(m.stack)
        THEN Continue(PushV(m, m.stack[offset + a + 1]))
        ELSE Fail(m, IndexOutOfBounds(m))

ExecStore(m, a) ==
    LET offset == stack_offset(m)
    IN  IF m.stack = <<>> THEN Fail(m, StackUnderflow(m))
        ELSE LET value == Top(m.stack)
                 m1 == [m EXCEPT !.stack = ButLast(m.stack)]
             IN  IF offset + a < Len(m1.stack)
                 THEN Continue([m1 EXCEPT !.stack[offset + a + 1] = value])
                 ELSE Fail(m1, IndexOutOfBounds(m))

ExecGet(m, name, gv) ==
    IF name \in DOMAIN props
    THEN Outcome(PushV(m, gv), Ok("Continue"), <<Invocation("get", name, TRUE)>>)
    ELSE Outcome(m, Panic, <<>>)

ExecSet(m, name) ==
    IF m.stack = <<>> THEN Fail(m, StackUnderflow(m))
    ELSE LET m1 == [m EXCEPT !.stack = ButLast(m.stack)]
         IN  IF name \in DOMAIN props
             THEN Outcome(m1, Ok("Continue"), <<Invocation("set", name, TRUE)>>)
             ELSE Outcome(m1, Panic, <<>>)

\* the two pop!() of a binary instruction: a is popped first, b second
Pop2(m) ==
    IF m.stack = <<>> THEN [ok |-> FALSE, a |-> NoValue, b |-> NoValue, m |-> m]
    ELSE LET s1 == ButLast(m.stack)
         IN  IF s1 = <<>>
             THEN [ok |-> FALSE, a |-> NoValue, b |-> NoValue, m |-> [m EXCEPT !.stack = s1]]
             ELSE [ok |-> TRUE, a |-> Top(m.stack), b |-> Top(s1),
                   m |-> [m EXCEPT !.stack = ButLast(s1)]]

\* the match of Add on (a, b)
AddResult(a, b) ==
    CASE a.t = "Number" /\ b.t = "Number" -> Ok("Continue")
      [] a.t = "String" /\ b.t = "String" -> Ok("Continue")
      [] a.t = "Number" /\ b.t # "Number" -> Err(TypeError("Right operand must be a number"))
      [] a.t = "String" /\ b.t # "String" -> Err(TypeError("Right operand must be a string"))
      [] OTHER -> Err(TypeError("Operands must be a number or a string"))

AddValue(a, b) ==
    IF a.t = "Number" THEN NumberV(NumOp("Add", b.n, a.n)) ELSE Str(b.s \o a.s)

ExecAdd(m) ==
    LET p == Pop2(m)
    IN  IF ~p.ok THEN Fail(p.m, StackUnderflow(m))
        ELSE IF AddResult(p.a, p.b).state = "Continue"
             THEN Continue(PushV(p.m, AddValue(p.a, p.b)))
             ELSE Outcome(p.m, AddResult(p.a, p.b), <<>>)

BinopValue_Swapped(op, a, b) ==
    IF op \in CompareOps THEN Bool(NumCmp(op, a.n, b.n)) ELSE NumberV(NumOp(op, a.n, b.n))

\* binop!: (Number(n), Number(m)) => push($res(m $op n)), with a = Number(n)
\* popped first and b = Number(m) popped second; Exp is m.powf(n)
BinopValue(op, a, b) ==
    IF op \in CompareOps THEN Bool(NumCmp(op, b.n, a.n)) ELSE NumberV(NumOp(op, b.n, a.n))

ExecBinop(m, op) ==
    LET p == Pop2(m)
    IN  IF ~p.ok THEN Fail(p.m, StackUnderflow(m))
        ELSE IF p.a.t = "Number" /\ p.b.t = "Number"
             THEN Continue(PushV(p.m, BinopValue(op, p.a, p.b)))
             ELSE Fail(p.m, TypeError("Both operands must be numbers"))

ExecUnary(m, op) ==
    IF m.stack = <<>> THEN Fail(m, StackUnderflow(m))
    ELSE IF Top(m.stack).t = "Number"
         THEN LET n == Top(m.stack).n
                  r == IF op = "Neg" THEN <<0 - n[1], n[2]>> ELSE <<AbsInt(n[1]), n[2]>>
              IN  Continue([m EXCEPT !.stack[Len(m.stack)] = NumberV(r)])
         ELSE Fail(m, TypeError(IF op = "Neg" THEN "Only numbers can be negated"
                                ELSE "Absolute value only works with numbers"))

\* logicop! and Xor: truthiness of a (with unknown ua) and of b (with ub)
ExecLogic(m, op, ua, ub) ==
    LET p == Pop2(m)
        ta == Truthy(p.a, ua)
        tb == Truthy(p.b, ub)
    IN  IF ~p.ok THEN Fail(p.m, StackUnderflow(m))
        ELSE Continue(PushV(p.m, Bool(CASE op = "And" -> ta /\ tb
                                        [] op = "Or" -> ta \/ tb
                                        [] op = "Xor" -> (ta /\ ~tb) \/ (tb /\ ~ta))))

ExecEq(m, op) ==
    LET p == Pop2(m)
    IN  IF ~p.ok THEN Fail(p.m, StackUnderflow(m))
        ELSE Continue(PushV(p.m, Bool(IF op = "Eq" THEN ValueEq(p.a, p.b)
                                       ELSE ~ValueEq(p.a, p.b))))

ExecJumpCond_BoundsChecked(m, op, a, u) ==
    IF m.stack = <<>> THEN Fail(m, StackUnderflow(m))
    ELSE LET cond == Truthy(Top(m.stack), u)
             m1 == [m EXCEPT !.stack = ButLast(m.stack)]
             taken == IF op = "JumpIf" THEN cond ELSE ~cond
         IN  IF taken /\ a >= Len(program) THEN Fail(m1, IndexOutOfBounds(m1))
             ELSE Continue(IF taken THEN [m1 EXCEPT !.ip = a] ELSE m1)

ExecJumpCond(m, op, a, u) ==
    IF m.stack = <<>> THEN Fail(m, StackUnderflow(m))
    ELSE LET cond == Truthy(Top(m.stack), u)
             m1 == [m EXCEPT !.stack = ButLast(m.stack)]
             taken == IF op = "JumpIf" THEN cond ELSE ~cond
         IN  Continue(IF taken THEN [m1 EXCEPT !.ip = a] ELSE m1)

CallReturn_Inverted(ret) == IF ret THEN "Yield" ELSE "Continue"

\* what step() returns after callable.call() returned ret
CallReturn(ret) == IF ret THEN "Continue" ELSE "Yield"

ExecCall(m, name, ret) ==
    IF name \in DOMAIN callables
    THEN Outcome(m, Ok(CallReturn(ret)), <<Invocation("call", name, ret)>>)
    ELSE IF name \in DOMAIN groups
         THEN Continue([m EXCEPT !.call_stack = Append(m.call_stack,
                                                   Frame(m.ip, Len(m.stack))),
                                 !.ip = groups[name]])
         ELSE Fail(m, Error("UnregisteredCallable", m.ip - 1, name, ""))

ExecCallParallel_EntersGroup(m, name) == ExecCall(m, name, TRUE)

\* the arm of CallParallel has no statement
ExecCallParallel(m, name) == Continue(m)

\* the match of step() on the fetched instruction
Exec(op, m, ret, gv, ua, ub) ==
    CASE op.op = "Load" -> ExecLoad(m, op.a)
      [] op.op = "Store" -> ExecStore(m, op.a)
      [] op.op = "Get" -> ExecGet(m, op.name, gv)
      [] op.op = "Set" -> ExecSet(m, op.name)
      [] op.op = "Push" -> Continue(PushV(m, op.v))
      [] op.op = "Pop" -> Continue([m EXCEPT !.stack = ButLast(m.stack)])
      [] op.op = "Dup" -> IF m.stack = <<>> THEN Fail(m, StackUnderflow(m))
                          ELSE Continue(PushV(m, Top(m.stack)))
      [] op.op = "Add" -> ExecAdd(m)
      [] op.op \in NumericOps \cup CompareOps -> ExecBinop(m, op.op)
      [] op.op \in {"Neg", "Abs"} -> ExecUnary(m, op.op)
      [] op.op \in LogicOps -> ExecLogic(m, op.op, ua, ub)
      [] op.op \in {"Eq", "Ne"} -> ExecEq(m, op.op)
      [] op.op = "Jump" -> Continue([m EXCEPT !.ip = op.a])
      [] op.op \in {"JumpIf", "JumpUnless"} -> ExecJumpCond(m, op.op, op.a, ua)
      [] op.op = "Label" -> Continue(m)
      [] op.op = "Call" -> ExecCall(m, op.name, ret)
      [] op.op = "CallParallel" -> ExecCallParallel(m, op.name)
      [] OTHER -> Outcome(m, Panic, <<>>)

(***************************************************************************)
(* scan_groups and verify_externals.                                       *)
(***************************************************************************)
LabelAddrs(prog, name) == {i \in 0..(Len(prog) - 1) : prog[i + 1] = InsN("Label", name)}

MaxOf(S) == CHOOSE i \in S : \A j \in S : j <= i

\* a later Label of the same name overwrites the earlier entry
scan_groups(prog) ==
    [name \in {prog[i].name : i \in {j \in 1..Len(prog) : prog[j].op = "Label"}}
        |-> MaxOf(LabelAddrs(prog, name))]

SeenInsert_Forgets(seen, name) == seen

\* seen.insert(name)
SeenInsert(seen, name) == seen \cup {name}

\* is the reference of instruction op reported, given the names seen so far
Offends_IgnoresSettable(op, seen) ==
    CASE op.op \in {"Get", "Set"} -> op.name \notin seen /\ op.name \notin DOMAIN props
      [] op.op = "Call" ->
            ~(op.name \in DOMAIN callables \/ op.name \in DOMAIN groups)
            /\ op.name \notin seen
      [] op.op \in {"CallParallel", "CallRace"} ->
            op.name \notin DOMAIN groups /\ op.name \notin seen
      [] OTHER -> FALSE

Offends_ParallelAcceptsCallables(op, seen) ==
    CASE op.op = "Get" -> op.name \notin seen /\ op.name \notin DOMAIN props
      [] op.op = "Set" ->
            IF op.name \in DOMAIN props
            THEN ~props[op.name].settable /\ op.name \notin seen
            ELSE op.name \notin seen
      [] op.op \in {"Call", "CallParallel", "CallRace"} ->
            ~(op.name \in DOMAIN callables \/ op.name \in DOMAIN groups)
            /\ op.name \notin seen
      [] OTHER -> FALSE

Offends(op, seen) ==
    CASE op.op = "Get" -> op.name \notin seen /\ op.name \notin DOMAIN props
      [] op.op = "Set" ->
            IF op.name \in DOMAIN props
            THEN ~props[op.name].settable /\ op.name \notin seen
            ELSE op.name \notin seen
      [] op.op = "Call" ->
            ~(op.name \in DOMAIN callables \/ op.name \in DOMAIN groups)
            /\ op.name \notin seen
      [] op.op \in {"CallParallel", "CallRace"} ->
            op.name \notin DOMAIN groups /\ op.name \notin seen
      [] OTHER -> FALSE

\* the error pushed for instruction op at address i
VerifyError(op, i) ==
    CASE op.op = "Get" -> Error("UnregisteredProperty", i, op.name, "")
      [] op.op = "Set" -> IF op.name \in DOMAIN props
                          THEN Error("UnsettableProperty", i, op.name, "")
                          ELSE Error("UnregisteredProperty", i, op.name, "")
      [] op.op = "Call" -> Error("UnregisteredCallable", i, op.name, "")
      [] OTHER -> Error("InvalidCall", i, "", "")

RECURSIVE VerifyFrom(_, _, _)
VerifyFrom(i, errs, seen) ==
    IF i >= Len(program) THEN errs
    ELSE LET op == program[i + 1]
         IN  IF Offends(op, seen)
             THEN VerifyFrom(i + 1, Append(errs, VerifyError(op, i)), SeenInsert(seen, op.name))
             ELSE VerifyFrom(i + 1, errs, seen)

\* the Vec<Error> of verify_externals; empty when it returns Ok(())
verify_externals == VerifyFrom(0, <<>>, {})

(***************************************************************************)
(* step()                                                                  *)
(***************************************************************************)
\* `if !self.running`: does this step() run the verification pass
Verifies(r) == ~r

Rejected_Never(es) == FALSE

\* `if let Err(es)`: does the pass stop the step
Rejected(es) == es # <<>>

StepStop_ClearsStack(m) ==
    Outcome([m EXCEPT !.running = FALSE, !.stack = <<>>], Ok("Stop"), <<>>)

\* the branch taken when the instruction pointer is past the end
StepStop_StaysRunning(m) == Outcome(m, Ok("Stop"), <<>>)

StepStop(m) == Outcome([m EXCEPT !.running = FALSE], Ok("Stop"), <<>>)

Surfaced_Last(es) == es[Len(es)]

\* `es[0]`: the error of the list that step() returns
Surfaced(es) == es[1]

StepOutcome(ret, gv, ua, ub) ==
    LET es == IF Verifies(running) THEN verify_externals ELSE <<>>
        m1 == [Machine EXCEPT !.running = TRUE]
    IN  IF Rejected(es)
        THEN [out |-> Outcome(Machine, Err(Surfaced(es)), <<>>), es |-> es, at |-> 0 - 1]
        ELSE IF ip >= Len(program)
             THEN [out |-> StepStop(m1), es |-> es, at |-> 0 - 1]
             ELSE [out |-> Exec(program[ip + 1], [m1 EXCEPT !.ip = ip + 1], ret, gv, ua, ub),
                   es |-> es, at |-> ip]

\* what the host's capabilities may answer during one step(): the return of
\* call(), the value of get(), and the truthy() of the non-Bool operands; an
\* answer the fetched instruction does not ask for is fixed
Answers ==
    LET op == IF ip < Len(program) THEN program[ip + 1].op ELSE ""
        top == IF stack = <<>> THEN NoValue ELSE Top(stack)
        snd == IF Len(stack) < 2 THEN NoValue ELSE stack[Len(stack) - 1]
        coerces == LogicOps \cup {"JumpIf", "JumpUnless"}
    IN  [ret : IF op = "Call" THEN BOOLEAN ELSE {TRUE},
         gv : IF op = "Get" THEN PropVals ELSE {NoValue},
         ua : IF op \in coerces /\ top.t # "Bool" THEN BOOLEAN ELSE {FALSE},
         ub : IF op \in LogicOps /\ snd.t # "Bool" THEN BOOLEAN ELSE {FALSE}]

Step ==
    \E o \in {StepOutcome(h.ret, h.gv, h.ua, h.ub) : h \in Answers} :
        /\ Len(o.out.m.call_stack) <= MaxDepth
        /\ ip' = o.out.m.ip
        /\ stack' = o.out.m.stack
        /\ call_stack' = o.out.m.call_stack
        /\ running' = o.out.m.running
        /\ call' = [op |-> "step", name |-> ""]
        /\ result' = o.out.res
        /\ errors' = o.es
        /\ invoked' = o.out.inv
        /\ fetched' = o.at
        /\ UNCHANGED <<program, props, callables, groups>>
        /\ UNCHANGED beside

(***************************************************************************)
(* reset(), register_callable(), register_property()                       *)
(***************************************************************************)
Reset_KeepsStack ==
    /\ running' = FALSE
    /\ ip' = 0
    /\ call_stack' = <<>>
    /\ call' = [op |-> "reset", name |-> ""]
    /\ result' = Ok("Ok")
    /\ errors' = <<>>
    /\ invoked' = <<>>
    /\ fetched' = 0 - 1
    /\ UNCHANGED <<stack, program, props, callables, groups>>
    /\ UNCHANGED beside

Reset ==
    /\ running' = FALSE
    /\ ip' = 0
    /\ stack' = <<>>
    /\ call_stack' = <<>>
    /\ call' = [op |-> "reset", name |-> ""]
    /\ result' = Ok("Ok")
    /\ errors' = <<>>
    /\ invoked' = <<>>
    /\ fetched' = 0 - 1
    /\ UNCHANGED <<program, props, callables, groups>>
    /\ UNCHANGED beside

Active_Never(r) == FALSE

\* `if self.running`
Active(r) == r

DuplicateCallable_IgnoresGroups(name) == name \in DOMAIN callables

DuplicateCallable(name) == name \in DOMAIN callables \/ name \in DOMAIN groups

DuplicateProperty_Never(name) == FALSE

DuplicateProperty(name) == name \in DOMAIN props

Insert(table, name, inst) == [n \in DOMAIN table \cup {name} |-> IF n = name THEN inst ELSE table[n]]

Returned(op, name, res) ==
    /\ call' = [op |-> op, name |-> name]
    /\ result' = res
    /\ errors' = <<>>
    /\ invoked' = <<>>
    /\ fetched' = 0 - 1
    /\ UNCHANGED beside

RegisterCallable ==
    \E name \in Names, callable \in CallableInsts :
        /\ IF Active(running)
           THEN /\ Returned("register_callable", name, Err(Error("InterpreterActive", 0 - 1, "", "")))
                /\ UNCHANGED callables
           ELSE IF DuplicateCallable(name)
                THEN /\ Returned("register_callable", name,
                                 Err(Error("DuplicateCallable", 0 - 1, name, "")))
                     /\ UNCHANGED callables
                ELSE /\ Returned("register_callable", name, Ok("Ok"))
                     /\ callables' = Insert(callables, name, callable)
        /\ UNCHANGED <<program, ip, stack, call_stack, props, groups, running>>

RegisterProperty ==
    \E name \in Names, prop \in PropInsts :
        /\ IF Active(running)
           THEN /\ Returned("register_property", name, Err(Error("InterpreterActive", 0 - 1, "", "")))
                /\ UNCHANGED props
           ELSE IF DuplicateProperty(name)
                THEN /\ Returned("register_property", name,
                                 Err(Error("DuplicateProperty", 0 - 1, name, "")))
                     /\ UNCHANGED props
                ELSE /\ Returned("register_property", name, Ok("Ok"))
                     /\ props' = Insert(props, name, prop)
        /\ UNCHANGED <<program, ip, stack, call_stack, callables, groups, running>>

(***************************************************************************)
(* AiCompiler (lib.rs).  A Compiler is known by the names registered with  *)
(* it; `some` tells Some(compiler) from None.                              *)
(***************************************************************************)
CompilerOf(cs, ps) == [some |-> TRUE, callables |-> cs, props |-> ps]

NoCompiler == [some |-> FALSE, callables |-> {}, props |-> {}]

(***************************************************************************)
(* Interpreter::new(program), and the specifications.                      *)
(***************************************************************************)
New(prog) ==
    /\ program = prog
    /\ groups = scan_groups(prog)
    /\ ip = 0
    /\ stack = <<>>
    /\ call_stack = <<>>
    /\ props = <<>>
    /\ callables = <<>>
    /\ running = FALSE
    /\ call = [op |-> "new", name |-> ""]
    /\ result = Ok("Ok")
    /\ errors = <<>>
    /\ invoked = <<>>
    /\ fetched = 0 - 1
    /\ steps = 0
    /\ compiler = NoCompiler
    /\ compiled = NoCompiler

Init == \E prog \in Programs : New(prog)

Next == Step \/ Reset \/ RegisterCallable \/ RegisterProperty

Spec == Init /\ [][Next]_vars

\* one instruction on literal operands, stepped and reset by the host
InitArith == \E prog \in ArithPrograms : New(prog)

NextArith == Step \/ Reset

SpecArith == InitArith /\ [][NextArith]_vars

(***************************************************************************)
(* Properties.                                                             *)
(***************************************************************************)
IsStep == call'.op = "step"

IsRegister == call'.op \in {"register_callable", "register_property"}

PastEnd == ip >= Len(program)

\* C1: when the instruction pointer is past the end of the program, step()
\* returns Stop and leaves ip, the operand stack and the call stack as they
\* were, and the pointer stays past the end (with both stacks untouched) under
\* every call but reset(): Stop is returned by every further step() until
\* reset() is called.
C1_StopIsStable ==
    [][PastEnd =>
          /\ IsStep => /\ result'.state = "Stop"
                       /\ ~running'
                       /\ UNCHANGED <<ip, stack, call_stack>>
          /\ call'.op # "reset" => /\ ip' >= Len(program)
                                   /\ UNCHANGED <<stack, call_stack>>]_vars

C1_Witness ==
    /\ call.op = "step"
    /\ result.state = "Stop"
    /\ stack # <<>>
    /\ call_stack # <<>>
    /\ DOMAIN props # {}

\* C2: a step() whose verification pass lists an error returns an error and
\* changes nothing (ip, both stacks, the running flag and the tables keep
\* their values, no instruction is dispatched, no capability is invoked); a
\* step() dispatches an instruction only in a state where the verification
\* pass finds nothing.
C2_VerificationGates ==
    [][IsStep =>
          /\ errors' # <<>> => /\ result'.state = "Err"
                               /\ ~running /\ ~running'
                               /\ UNCHANGED <<ip, stack, call_stack, props, callables, groups>>
                               /\ invoked' = <<>>
                               /\ fetched' = 0 - 1
          /\ (fetched' >= 0 \/ invoked' # <<>>) => verify_externals = <<>>
          /\ (~running /\ verify_externals # <<>>) => errors' # <<>>]_vars

C2_Witness ==
    /\ call.op = "step"
    /\ result.state = "Err"
    /\ errors # <<>>
    /\ ip = 0
    /\ DOMAIN callables # {}
    /\ program[1].op = "Call"
    /\ program[1].name \in DOMAIN callables

(***************************************************************************)
(* The verification pass, restated from what makes a reference offending.  *)
(***************************************************************************)
Addrs == 0..(Len(program) - 1)

\* the addresses of the instructions that reference name n
RefAddrs(n) == {i \in Addrs : program[i + 1].op \in RefOps /\ program[i + 1].name = n}

\* the reference made at address i cannot be resolved in its role
OffendingAt(i) ==
    LET op == program[i + 1]
    IN  \/ op.op = "Get" /\ op.name \notin DOMAIN props
        \/ op.op = "Set" /\ (op.name \notin DOMAIN props \/ ~props[op.name].settable)
        \/ op.op = "Call" /\ op.name \notin DOMAIN callables /\ op.name \notin DOMAIN groups
        \/ op.op \in {"CallParallel", "CallRace"} /\ op.name \notin DOMAIN groups

OffendingAddrs(n) == {i \in RefAddrs(n) : OffendingAt(i)}

OffendingNames == {n \in Names : OffendingAddrs(n) # {}}

MinOf(S) == CHOOSE i \in S : \A j \in S : i <= j

\* the entries of the error list attached to an instruction that references n
EntriesFor(es, n) == {k \in 1..Len(es) : es[k].addr \in RefAddrs(n)}

\* C3 as stated: for every offending name the list collected by the
\* verification pass of a step() has exactly one entry, attached to the first
\* instruction that references the name.
C3_OnePerNameAtFirstReference ==
    call.op = "step" =>
        \A n \in OffendingNames :
            /\ Cardinality(EntriesFor(errors, n)) = 1
            /\ \A k \in EntriesFor(errors, n) :
                  errors[k].addr = MinOf(RefAddrs(n))

\* C3 amended: for every offending name the list collected by the
\* verification pass of a step() has exactly one entry, attached to the first
\* instruction whose reference to the name is offending (an earlier
\* instruction may reference the same name in a role in which it resolves).
C3_OnePerNameAtFirstOffence ==
    call.op = "step" =>
        \A n \in OffendingNames :
            /\ Cardinality(EntriesFor(errors, n)) = 1
            /\ \A k \in EntriesFor(errors, n) :
                  errors[k].addr = MinOf(OffendingAddrs(n))

\* a name offending at two instructions in two roles, reported once, at the
\* first of them, by a step()
C3_Witness ==
    /\ call.op = "step"
    /\ errors = verify_externals
    /\ Len(errors) = 1
    /\ \E n \in OffendingNames :
          /\ Cardinality(OffendingAddrs(n)) = 2
          /\ \E i, j \in OffendingAddrs(n) : program[i + 1].op # program[j + 1].op
          /\ errors[1].addr = MinOf(OffendingAddrs(n))

(***************************************************************************)
(* Group calls.                                                            *)
(***************************************************************************)
\* C4: a group called with Call(g) returns when its body ends: by the time a
\* program laid out as the compiler lays out groups has run to Stop, every
\* frame pushed by a group call has been popped.
C4_GroupCallReturns ==
    (program \in GroupPrograms /\ call.op = "step" /\ result.state = "Stop")
        => call_stack = <<>>

(***************************************************************************)
(* Registration.                                                           *)
(***************************************************************************)
\* C5: while the interpreter is active (from a step() that passed
\* verification and returned Continue or Yield on), register_callable and
\* register_property return InterpreterActive and change neither table,
\* whatever the name.
C5_RegistrationWhileActive ==
    [][/\ (IsStep /\ result'.state \in {"Continue", "Yield"}) => running'
       /\ (IsRegister /\ running) =>
             /\ result' = Err(Error("InterpreterActive", 0 - 1, "", ""))
             /\ UNCHANGED <<callables, props, groups>>]_vars

\* a name that an idle interpreter would accept, refused while active
C5_Witness ==
    /\ running
    /\ call.op = "register_callable"
    /\ result.err.kind = "InterpreterActive"
    /\ call.name \notin DOMAIN callables \cup DOMAIN groups \cup DOMAIN props

Collides(n) == n \in DOMAIN callables \cup DOMAIN props \cup DOMAIN groups

DuplicateOf(op) == IF op = "register_callable" THEN "DuplicateCallable" ELSE "DuplicateProperty"

\* C6 as stated: on an idle interpreter a registration of either kind under
\* a name that is already a callable, a property or a group reports a
\* duplicate error and leaves the three tables unchanged.
C6_AnyCollisionIsDuplicate ==
    [][(IsRegister /\ ~running /\ Collides(call'.name)) =>
          /\ result' = Err(Error(DuplicateOf(call'.op), 0 - 1, call'.name, ""))
          /\ UNCHANGED <<callables, props, groups>>]_vars

\* C6 amended: on an idle interpreter register_callable reports
\* DuplicateCallable when the name is already a callable or a group, and
\* register_property reports DuplicateProperty when the name is already a
\* property; the three tables are then unchanged.
C6_OwnTableCollisionIsDuplicate ==
    [][(IsRegister /\ ~running) =>
          /\ (call'.op = "register_callable"
                /\ call'.name \in DOMAIN callables \cup DOMAIN groups) =>
                /\ result' = Err(Error("DuplicateCallable", 0 - 1, call'.name, ""))
                /\ UNCHANGED <<callables, props, groups>>
          /\ (call'.op = "register_property" /\ call'.name \in DOMAIN props) =>
                /\ result' = Err(Error("DuplicateProperty", 0 - 1, call'.name, ""))
                /\ UNCHANGED <<callables, props, groups>>]_vars

\* a property registered twice: the second call is refused
C6_Witness ==
    /\ ~running
    /\ call.op = "register_property"
    /\ result.err.kind = "DuplicateProperty"
    /\ call.name \in DOMAIN props
    /\ DOMAIN callables # {}
    /\ DOMAIN groups # {}

\* C7: no name is a key of the callable table and of the group table.
C7_CallablesAndGroupsDisjoint == DOMAIN callables \cap DOMAIN groups = {}

\* a callable refused under the name of a group, beside a registered callable
C7_Witness ==
    /\ call.op = "register_callable"
    /\ result.err.kind = "DuplicateCallable"
    /\ call.name \in DOMAIN groups
    /\ DOMAIN callables # {}

(***************************************************************************)
(* Instructions.                                                           *)
(***************************************************************************)
\* C8: a step() that dispatches Call(name) with name a registered callable
\* invokes that callable once and nothing else, returns Yield if call()
\* returned false and Continue if it returned true, and leaves the
\* instruction pointer just past the Call, both stacks unchanged.
C8_CallYields ==
    [][(IsStep /\ fetched' >= 0 /\ program[fetched' + 1].op = "Call"
          /\ program[fetched' + 1].name \in DOMAIN callables) =>
          /\ Len(invoked') = 1
          /\ invoked'[1].kind = "call"
          /\ invoked'[1].name = program[fetched' + 1].name
          /\ result'.state = (IF invoked'[1].ret THEN "Continue" ELSE "Yield")
          /\ result'.err = NoError
          /\ ip' = fetched' + 1
          /\ fetched' = ip
          /\ running'
          /\ UNCHANGED <<stack, call_stack>>]_vars

C8_Witness ==
    /\ call.op = "step"
    /\ result.state = "Yield"
    /\ fetched >= 0
    /\ program[fetched + 1].op = "Call"
    /\ invoked = <<Invocation("call", program[fetched + 1].name, FALSE)>>
    /\ ip = fetched + 1
    /\ ip < Len(program)

NonCommutative == {"Sub", "Div", "Mod", "Exp"} \cup CompareOps

\* the state right after the step() that dispatched instruction o on the two
\* literals the program pushed: Left first, Right second
Applied(o) ==
    /\ Len(program) = 3
    /\ program[1].op = "Push"
    /\ program[2].op = "Push"
    /\ program[3].op = o
    /\ call.op = "step"
    /\ fetched = 2

Left == program[1].v

Right == program[2].v

LeftOpRight(o) ==
    IF o \in CompareOps THEN Bool(NumCmp(o, Left.n, Right.n))
    ELSE NumberV(NumOp(o, Left.n, Right.n))

Computes(o, a, b, r) == (Applied(o) /\ Left = Num(a) /\ Right = Num(b)) => stack = <<r>>

\* C9: a non-commutative binary instruction applied to the numbers a (pushed
\* first) and b (pushed second) replaces them with a OP b: 2 - 1 is 1, 1 / 2
\* is one half, -1 % 2 is -1, 2 to the power -1 is one half, 1 < 2 is true.
C9_LeftOpRight ==
    /\ \A o \in NonCommutative :
          (Applied(o) /\ Left.t = "Number" /\ Right.t = "Number") =>
              /\ result = Ok("Continue")
              /\ stack = <<LeftOpRight(o)>>
              /\ ip = 3
    /\ Computes("Sub", 2, 1, Num(1))
    /\ Computes("Sub", 1, 2, Num(0 - 1))
    /\ Computes("Div", 1, 2, NumberV(<<1, 2>>))
    /\ Computes("Div", 2, 1, Num(2))
    /\ Computes("Div", 1, 0, NumberV(<<1, 0>>))
    /\ Computes("Mod", 1, 2, Num(1))
    /\ Computes("Mod", 2, 1, Num(0))
    /\ Computes("Mod", 0 - 1, 2, Num(0 - 1))
    /\ Computes("Exp", 2, 0 - 1, NumberV(<<1, 2>>))
    /\ Computes("Exp", 0 - 1, 2, Num(1))
    /\ Computes("Lt", 1, 2, Bool(TRUE))
    /\ Computes("Le", 2, 1, Bool(FALSE))
    /\ Computes("Gt", 2, 1, Bool(TRUE))
    /\ Computes("Ge", 1, 2, Bool(FALSE))

C9_Witness ==
    /\ Applied("Sub")
    /\ Left = Num(0 - 1)
    /\ Right = Num(2)
    /\ stack = <<Num(0 - 3)>>

\* C10: Add on L (pushed first) and R (pushed second): two numbers give
\* their sum, two strings give L followed by R, and otherwise the step fails
\* with a Type error that names the operand at fault: with a number on the
\* left the right operand must be a number, with a string on the left the
\* right operand must be a string.
C10_AddNamesTheOperandAtFault ==
    Applied("Add") =>
        CASE Left.t = "Number" /\ Right.t = "Number" ->
                /\ result = Ok("Continue")
                /\ stack = <<NumberV(NumOp("Add", Left.n, Right.n))>>
          [] Left.t = "String" /\ Right.t = "String" ->
                /\ result = Ok("Continue")
                /\ stack = <<Str(Left.s \o Right.s)>>
          [] Left.t = "Number" /\ Right.t # "Number" ->
                result = Err(TypeError("Right operand must be a number"))
          [] Left.t = "String" /\ Right.t # "String" ->
                result = Err(TypeError("Right operand must be a string"))
          [] OTHER -> result.state = "Err" /\ result.err.kind = "Type"

(***************************************************************************)
(* interpret(): `while self.step()? != InterpreterState::Stop {}`.  One    *)
(* Interpret step is one turn of the loop; interpret() holds the           *)
(* interpreter until it returns, so the host makes no other call meanwhile.*)
(***************************************************************************)
\* interpret() is not taken beyond this number of turns of its loop
MaxSteps == 6

\* an interpret() call has not returned yet
InProgress == call.op = "interpret" /\ result.state \in {"Continue", "Yield"}

HostIdle == ~InProgress

Loops_NotOnYield(state) == state \notin {"Stop", "Yield"}

\* the condition of the while loop on what step() returned
Loops(state) == state # "Stop"

\* what interpret() has returned after a step() that returned res; while the
\* loop goes on it is the result of that step()
InterpretResult(res) ==
    IF res.state \in {"Err", "Panic"} THEN res
    ELSE IF Loops(res.state) THEN res ELSE Ok("Ok")

Interpret ==
    /\ (IF InProgress THEN steps ELSE 0) < MaxSteps
    /\ \E o \in {StepOutcome(h.ret, h.gv, h.ua, h.ub) : h \in Answers} :
          /\ Len(o.out.m.call_stack) <= MaxDepth
          /\ ip' = o.out.m.ip
          /\ stack' = o.out.m.stack
          /\ call_stack' = o.out.m.call_stack
          /\ running' = o.out.m.running
          /\ call' = [op |-> "interpret", name |-> ""]
          /\ result' = InterpretResult(o.out.res)
          /\ errors' = o.es
          /\ invoked' = o.out.inv
          /\ fetched' = o.at
          /\ steps' = (IF InProgress THEN steps ELSE 0) + 1
          /\ UNCHANGED <<program, props, callables, groups, compiler, compiled>>

\* straight-line programs with a failing instruction in the middle, a
\* callable that may yield, a property read and written, a loop, and the
\* programs with groups
RunPrograms ==
    { <<>>,
      <<Push(Str("foo")), Ins("Neg"), Push(Num(1))>>,
      <<Ins("Add"), Push(Num(1))>>,
      <<InsA("Load", 0), Push(Num(1)), Ins("Pop")>>,
      <<InsN("Call", "x"), Push(Num(1)), InsN("Call", "x")>>,
      <<InsN("Get", "x"), Ins("Dup"), InsN("Set", "x")>>,
      <<Push(Bool(TRUE)), InsA("JumpIf", 0)>> }
    \cup GroupPrograms

InitRun == \E prog \in RunPrograms : New(prog)

NextRun ==
    \/ HostIdle /\ Step
    \/ HostIdle /\ Reset
    \/ HostIdle /\ RegisterCallable
    \/ HostIdle /\ RegisterProperty
    \/ Interpret

SpecRun == InitRun /\ [][NextRun]_vars

RuntimeErrors == {"StackUnderflow", "IndexOutOfBounds", "Type"}

IsInterpret == call'.op = "interpret"

\* C11: after a step() has returned StackUnderflow, IndexOutOfBounds or Type,
\* no instruction is dispatched by the next step(), whether the host calls
\* it or interpret() does, when reset() was not called in between.
C11_NothingRunsAfterARuntimeError ==
    [][(result.state = "Err" /\ result.err.kind \in RuntimeErrors
          /\ (IsStep \/ IsInterpret)) => fetched' = 0 - 1]_vars

\* no jump and no call of a group
StraightLine ==
    \A i \in 1..Len(program) :
        /\ program[i].op \notin {"Jump", "JumpIf", "JumpUnless"}
        /\ program[i].op = "Call" => program[i].name \notin DOMAIN groups

\* C20: interpret() returns Ok only from a step() that returned Stop (the
\* pointer past the end, the running flag cleared); once a step() returned an
\* error or panicked, interpret() has returned it and steps no more; after
\* Continue and after Yield alike the next step() is made by the same
\* interpret() call; and on a program with no jump and no group call one
\* interpret() call makes at most Len(program) + 1 step() calls.
C20_InterpretRunsToCompletion ==
    [][/\ InProgress => (IsInterpret /\ steps' = steps + 1)
       /\ (IsInterpret /\ ~InProgress) => steps' = 1
       /\ IsInterpret =>
             /\ result'.state \in {"Ok", "Err", "Panic", "Continue", "Yield"}
             /\ result'.state = "Ok" =>
                   /\ ip' >= Len(program)
                   /\ ~running'
                   /\ fetched' = 0 - 1
                   /\ UNCHANGED <<ip, stack, call_stack>>
             /\ (ip >= Len(program) /\ (running \/ verify_externals = <<>>)) =>
                   result'.state = "Ok"
             /\ result'.state \in {"Continue", "Yield"} => (fetched' = ip /\ running')
             /\ StraightLine => steps' <= Len(program) + 1]_vars

\* an interpret() call that went through three instructions, the first or
\* the last of them a call of a callable, and returned Ok at its fourth step
C20_Witness ==
    /\ call.op = "interpret"
    /\ result.state = "Ok"
    /\ StraightLine
    /\ Len(program) = 3
    /\ program[1].op = "Call"
    /\ steps = Len(program) + 1

IsReset == call'.op = "reset"

\* C12: reset(), in whatever state it is called, sets the pointer to 0 and
\* empties the operand stack and the call stack, and leaves the program and
\* the three tables as they were; the step() that follows it runs the
\* verification pass again and, when the pass finds nothing, executes the
\* instruction at address 0.
C12_ResetClearsPositionOnly ==
    [][/\ IsReset =>
             /\ ip' = 0
             /\ stack' = <<>>
             /\ call_stack' = <<>>
             /\ UNCHANGED <<program, groups, callables, props>>
       /\ (call.op = "reset" /\ (IsStep \/ IsInterpret)) =>
             /\ errors' = verify_externals
             /\ errors' # <<>> => (fetched' = 0 - 1 /\ result'.state = "Err")
             /\ errors' = <<>> =>
                   fetched' = (IF program = <<>> THEN 0 - 1 ELSE 0)]_vars

\* a step() executed instruction 0 after an interpret() call had taken the
\* pointer beyond it, in a program in which only reset() takes it back
C12_Witness ==
    /\ call.op = "step"
    /\ fetched = 0
    /\ ip = 1
    /\ steps >= 2
    /\ StraightLine
    /\ callables # <<>>

\* the instruction the last step() dispatched
Fetched == program[fetched + 1]

\* C13: an instruction dispatched by step() never meets an unresolved name,
\* whatever step, reset and registration calls came before: a dispatched Get
\* or Set names a registered property, a dispatched Set a settable one, a
\* dispatched Call a callable or a group, and no step() returns
\* UnregisteredCallable from the Call arm.
C13_NoUnresolvedNameAfterVerification ==
    (call.op = "step" /\ fetched >= 0) =>
        /\ Fetched.op \in {"Get", "Set"} => Fetched.name \in DOMAIN props
        /\ Fetched.op = "Set" => props[Fetched.name].settable
        /\ Fetched.op = "Call" =>
              Fetched.name \in DOMAIN callables \cup DOMAIN groups
        /\ Fetched.op \in {"Get", "Set", "Call"} => result.state # "Panic"
        /\ result.err.kind # "UnregisteredCallable"

\* a Set was dispatched on the value a Get of the same property had pushed
C13_Witness ==
    /\ call.op = "step"
    /\ fetched = 1
    /\ Fetched.op = "Set"
    /\ program[1] = InsN("Get", Fetched.name)
    /\ result.state = "Continue"
    /\ stack = <<>>

\* the step() being taken dispatches Call of a name that is a group and
\* not a callable
CallsGroup ==
    /\ IsStep
    /\ fetched' >= 0
    /\ program[fetched' + 1].op = "Call"
    /\ program[fetched' + 1].name \notin DOMAIN callables
    /\ program[fetched' + 1].name \in DOMAIN groups

\* C15: a step() that executes Call(name) at address p, name a group and
\* not a callable, pushes exactly one frame, with return_addr = p + 1 and
\* stack_offset = the length of the operand stack, leaves the operand stack
\* as it is, moves the pointer to the address of a Label(name) - the one
\* scan_groups recorded - invokes no callable and returns Continue.
C15_GroupCallPushesOneFrame ==
    [][CallsGroup =>
          /\ call_stack' = Append(call_stack,
                                  [return_addr |-> fetched' + 1,
                                   stack_offset |-> Len(stack)])
          /\ stack' = stack
          /\ ip' = groups[program[fetched' + 1].name]
          /\ program[ip' + 1] = InsN("Label", program[fetched' + 1].name)
          /\ invoked' = <<>>
          /\ result' = Ok("Continue")]_vars

\* a group was called with a value on the operand stack, from inside a group
\* or from the top level
C15_Witness ==
    /\ call.op = "step"
    /\ fetched >= 0
    /\ Fetched.op = "Call"
    /\ Fetched.name \in DOMAIN groups
    /\ result.state = "Continue"
    /\ stack # <<>>
    /\ call_stack # <<>>
    /\ Top(call_stack).stack_offset = Len(stack)
    /\ ip = groups[Fetched.name]

\* the addresses of the CallParallel and CallRace instructions whose name is
\* not a group
NonGroupParallel ==
    {i \in Addrs : /\ program[i + 1].op \in {"CallParallel", "CallRace"}
                   /\ program[i + 1].name \notin DOMAIN groups}

RecordedAt(es, i) == \E k \in 1..Len(es) : es[k].addr = i

InvalidCallAt(es, i) == \E k \in 1..Len(es) : es[k] = Error("InvalidCall", i, "", "")

\* no step() has got beyond the verification pass
NotBegun ==
    /\ ~running
    /\ ip = 0
    /\ stack = <<>>
    /\ call_stack = <<>>
    /\ fetched = 0 - 1

\* the last call was a step(), and it returned the first error its
\* verification pass collected
Refused == call.op = "step" => (errors # <<>> /\ result = Err(errors[1]))

\* C17 as stated: for every CallParallel(name) or CallRace(name) whose name is
\* not a group, a registered callable included, the verification pass of a
\* step() records InvalidCall for that instruction, and execution does not
\* begin.
C17_InvalidCallAtEveryNonGroupParallel ==
    NonGroupParallel # {} =>
        /\ NotBegun
        /\ Refused
        /\ call.op = "step" => \A i \in NonGroupParallel : InvalidCallAt(errors, i)

\* C17, amended: for every CallParallel(name) or CallRace(name) whose name is
\* not a group, a registered callable included, the verification pass of a
\* step() fails and execution does not begin; InvalidCall is recorded for
\* that instruction unless the pass recorded an error for an earlier
\* instruction that refers to the same name.
C17_NonGroupParallelFailsVerification ==
    NonGroupParallel # {} =>
        /\ NotBegun
        /\ Refused
        /\ call.op = "step" =>
              \A i \in NonGroupParallel :
                  \/ InvalidCallAt(errors, i)
                  \/ /\ ~RecordedAt(errors, i)
                     /\ \E j \in 0..(i - 1) :
                           /\ program[j + 1].op \in RefOps
                           /\ program[j + 1].name = program[i + 1].name
                           /\ RecordedAt(errors, j)

\* step() refused a program for a CallParallel or CallRace of a registered
\* callable
C17_Witness ==
    /\ call.op = "step"
    /\ result.state = "Err"
    /\ result.err.kind = "InvalidCall"
    /\ result.err.addr \in NonGroupParallel
    /\ program[result.err.addr + 1].name \in DOMAIN callables

\* C18: when the verification pass of a step() collects errors, step()
\* returns the first of the list and only that one: it is the entry of the
\* lowest-address offending instruction of the program, nothing is executed,
\* and a step() that follows directly, the program and the registrations
\* being the same, returns the same error.
C18_FirstCollectedErrorSurfaces ==
    [][/\ (IsStep /\ errors' # <<>>) =>
             /\ errors' = verify_externals
             /\ result' = Err(errors'[1])
             /\ errors'[1].addr = MinOf({i \in Addrs : OffendingAt(i)})
             /\ \A k \in 2..Len(errors') : errors'[k].addr > errors'[1].addr
             /\ fetched' = 0 - 1
             /\ UNCHANGED <<ip, stack, call_stack, running>>
       /\ (IsStep /\ call.op = "step" /\ errors # <<>>) =>
             (result' = result /\ errors' = errors)]_vars

\* a step() returned the first of two collected errors of different kinds,
\* with a callable registered
C18_Witness ==
    /\ call.op = "step"
    /\ Len(errors) >= 2
    /\ result = Err(errors[1])
    /\ errors[2].kind # errors[1].kind
    /\ callables # <<>>

\* the step() being taken dispatches an instruction of this kind
Dispatches(kind) ==
    /\ IsStep
    /\ fetched' >= 0
    /\ program[fetched' + 1].op = kind

\* C19: a step() that dispatches CallParallel(name) returns Continue with the
\* pointer advanced by exactly one, the operand stack and the call stack as
\* they were and no callable invoked: the group is not entered.  A step()
\* that dispatches CallRace returns no result: it panics.
C19_ParallelIsNoOpRacePanics ==
    [][/\ Dispatches("CallParallel") =>
             /\ result' = Ok("Continue")
             /\ fetched' = ip
             /\ ip' = ip + 1
             /\ UNCHANGED <<stack, call_stack>>
             /\ invoked' = <<>>
             /\ running'
       /\ Dispatches("CallRace") => result'.state = "Panic"]_vars

\* CallParallel of a group defined at another address was stepped over
C19_Witness ==
    /\ call.op = "step"
    /\ fetched >= 0
    /\ Fetched.op = "CallParallel"
    /\ Fetched.name \in DOMAIN groups
    /\ groups[Fetched.name] # ip
    /\ ip = fetched + 1
    /\ call_stack = <<>>
    /\ result = Ok("Continue")

(***************************************************************************)
(* AiCompiler: the Compiler it holds between calls, known by the names     *)
(* registered on it.  The interpreter is left alone by these calls.        *)
(***************************************************************************)
\* Compiler::new(): nothing registered
CompilerNew == CompilerOf({}, {})

\* how a compile() call may end
CompileOutcomes == {"parse_error", "compile_error", "ok"}

\* the if at the head of both register methods
Ensured(c) == IF c.some THEN c ELSE CompilerNew

\* what self.compiler.take() leaves in the field
Taken(c) == NoCompiler

interpreter == <<program, ip, stack, call_stack, props, callables, groups,
                 running, errors, invoked, fetched, steps>>

AiRegisterCallable ==
    \E name \in Names :
        LET c == Ensured(compiler)
        IN  /\ compiler' = CompilerOf(c.callables \cup {name}, c.props)
            /\ call' = [op |-> "ai_register_callable", name |-> name]
            /\ result' = IF name \in c.callables
                         THEN Err(Error("DuplicateCallable", 0 - 1, name, ""))
                         ELSE Ok("Ok")
            /\ UNCHANGED <<compiled, interpreter>>

AiRegisterProperty ==
    \E name \in Names :
        LET c == Ensured(compiler)
        IN  /\ compiler' = CompilerOf(c.callables, c.props \cup {name})
            /\ call' = [op |-> "ai_register_property", name |-> name]
            /\ result' = IF name \in c.props
                         THEN Err(Error("DuplicateProperty", 0 - 1, name, ""))
                         ELSE Ok("Ok")
            /\ UNCHANGED <<compiled, interpreter>>

\* compile(): a source that does not parse returns before the field is
\* touched; otherwise the Compiler is taken out of the field (a new one when
\* there is none) and consumed by the compilation
Compile ==
    \E outcome \in CompileOutcomes :
        /\ call' = [op |-> "compile", name |-> outcome]
        /\ result' = IF outcome = "ok" THEN Ok("Ok")
                     ELSE Err(Error(outcome, 0 - 1, "", ""))
        /\ IF outcome = "parse_error"
           THEN UNCHANGED <<compiler, compiled>>
           ELSE /\ compiled' = Ensured(compiler)
                /\ compiler' = Taken(compiler)
        /\ UNCHANGED interpreter

InitCompiler == New(<<>>)

NextCompiler == AiRegisterCallable \/ AiRegisterProperty \/ Compile

SpecCompiler == InitCompiler /\ [][NextCompiler]_vars

IsCompile == call'.op = "compile"

\* C14: what was registered through AiCompiler before a compile() is still
\* registered after it, whether it succeeded or failed, so the Compiler of a
\* later compile() knows every name the Compiler of an earlier one knew.
C14_RegistrationsCarriedAcrossCompile ==
    [][IsCompile =>
          /\ compiler.callables \subseteq Ensured(compiler').callables
          /\ compiler.props \subseteq Ensured(compiler').props
          /\ compiled.callables \subseteq compiled'.callables
          /\ compiled.props \subseteq compiled'.props]_vars

(***************************************************************************)
(* Local variables: a value pushed, stored into a slot and loaded back,    *)
(* at the top level and inside a group, into a slot that is already on     *)
(* the stack and into one that is not yet.                                 *)
(***************************************************************************)
MaxSlot == 1

Slots == 0..MaxSlot

\* Push(v), Store(s), Load(s) after the instructions of `before`
RoundTrip(before, v, s) == before \o <<Push(v), InsA("Store", s), InsA("Load", s)>>

\* the same, as the body of group g called with one value on the stack
InGroup(body) ==
    <<Push(Num(0)), InsN("Call", "g"), InsA("Jump", 4 + Len(body)), InsN("Label", "g")>>
        \o body

LocalPrograms ==
    LET top == {RoundTrip(before, v, s) :
                    before \in {<<>>, <<Push(Num(1))>>}, v \in NumLits, s \in Slots}
    IN  top \cup {InGroup(body) : body \in top}

InitLocal == \E prog \in LocalPrograms : New(prog)

NextLocal == Step \/ Reset

SpecLocal == InitLocal /\ [][NextLocal]_vars

\* the frame base of the state the step() is taken from
Base == stack_offset(Machine)

\* the step() being taken dispatches Load(s) right after the steps that
\* dispatched Push(v) and Store(s) of the same slot
LoadsBack ==
    /\ Dispatches("Load")
    /\ call.op = "step"
    /\ fetched >= 1
    /\ fetched' = fetched + 1
    /\ program[fetched] .op = "Push"
    /\ program[fetched + 1] = InsA("Store", program[fetched' + 1].a)

\* C16: in any frame, Push(v) then Store(s) binds v to slot s of the frame
\* and a following Load(s) pushes v, on the first assignment to the slot as
\* on a reassignment, and neither instruction changes the operand stack
\* below the frame's base.
C16_StoreThenLoadRoundTrip ==
    [][/\ (Dispatches("Store") /\ stack # <<>>) =>
             /\ result' = Ok("Continue")
             /\ Len(stack') > Base + program[fetched' + 1].a
             /\ stack'[Base + program[fetched' + 1].a + 1] = Top(stack)
       /\ LoadsBack =>
             /\ result' = Ok("Continue")
             /\ stack' = Append(stack, program[fetched].v)
       /\ (Dispatches("Store") \/ Dispatches("Load")) =>
             /\ Len(stack') >= Base
             /\ SubSeq(stack', 1, Base) = SubSeq(stack, 1, Base)]_vars

(***************************************************************************)
(* Registration after termination.                                         *)
(***************************************************************************)
\* a step() returned Stop and reset() has not been called since: the flag
\* is cleared by Stop and by reset() only, and reset() takes the pointer back
\* to 0
Stopped == ~running /\ PastEnd /\ ip > 0

\* the name of the registration being made is new to the table the method
\* tests
FreshName ==
    IF call'.op = "register_callable"
    THEN call'.name \notin DOMAIN callables \cup DOMAIN groups
    ELSE call'.name \notin DOMAIN props

\* the registration being made put an instance under its name
Registered ==
    IF call'.op = "register_callable"
    THEN /\ DOMAIN callables' = DOMAIN callables \cup {call'.name}
         /\ UNCHANGED props
    ELSE /\ DOMAIN props' = DOMAIN props \cup {call'.name}
         /\ UNCHANGED callables

\* C21: a step() that returns Stop clears the running flag, so after it, and
\* without a reset(), register_callable and register_property of a name that
\* does not collide succeed; the step() that follows is one that runs the
\* verification pass, finds nothing and returns Stop again.
C21_RegistrationOpensAfterStop ==
    [][/\ (IsStep /\ result'.state = "Stop") => (~running' /\ PastEnd')
       /\ (Stopped /\ IsRegister /\ FreshName) =>
             /\ result' = Ok("Ok")
             /\ Registered
             /\ UNCHANGED <<ip, stack, call_stack, running, program, groups>>
       /\ (Stopped /\ (IsStep \/ IsInterpret)) =>
             /\ Verifies(running)
             /\ errors' = verify_externals
             /\ errors' = <<>>
             /\ result'.state \in {"Stop", "Ok"}
             /\ fetched' = 0 - 1
             /\ UNCHANGED <<ip, stack, call_stack, running>>]_vars

\* a registration succeeded after the program had run to Stop, the pointer
\* still past the end: no reset() came in between
C21_Witness ==
    /\ IF call.op = "register_callable" THEN call.name \in DOMAIN callables
       ELSE call.op = "register_property" /\ call.name \in DOMAIN props
    /\ result = Ok("Ok")
    /\ Stopped
    /\ stack # <<>>

(***************************************************************************)
(* Jumps: a condition pushed, a jump to the last instruction, to the end   *)
(* of the program or beyond it, at the top level and inside a group.       *)
(***************************************************************************)
\* how far beyond the end of the program a jump target lies
MaxBeyond == 2

JumpOps == {"Jump", "JumpIf", "JumpUnless"}

\* the value on top of the stack when the jump is dispatched
JumpConds == {Bool(TRUE), Bool(FALSE), Num(1)}

JumpBody(j, cond, a) == <<Push(cond), InsA(j, a), Push(Num(1))>>

JumpPrograms ==
    {JumpBody(j, c, a) : j \in JumpOps, c \in JumpConds, a \in 2..(3 + MaxBeyond)}
        \cup {InGroup(JumpBody(j, c, a)) :
                 j \in JumpOps, c \in JumpConds, a \in 6..(7 + MaxBeyond)}

InitJump == \E prog \in JumpPrograms : New(prog)

NextJump == Step \/ Reset

SpecJump == InitJump /\ [][NextJump]_vars

\* the step() being taken dispatches a jump whose target is not an address
\* of the program
JumpsOut ==
    /\ IsStep
    /\ fetched' >= 0
    /\ program[fetched' + 1].op \in JumpOps
    /\ program[fetched' + 1].a >= Len(program)

\* the last step() took a jump to a target that is not an address of the
\* program
JumpedOut ==
    /\ call.op = "step"
    /\ fetched >= 0
    /\ Fetched.op \in JumpOps
    /\ Fetched.a >= Len(program)
    /\ result = Ok("Continue")
    /\ ip = Fetched.a

\* C22: a jump whose target a is at or beyond the end of the program is not
\* an error.  Jump(a), JumpIf(a) on a true condition and JumpUnless(a) on a
\* false one return Continue with ip = a (a conditional jump not taken goes
\* on to the next address); the step() after a jump taken returns Stop;
\* both leave the call stack, open frames included, and the operand stack
\* as they are, but for the condition a conditional jump pops.
C22_JumpTargetsAreNotChecked ==
    [][/\ JumpsOut =>
             /\ result' = Ok("Continue")
             /\ call_stack' = call_stack
             /\ program[fetched' + 1].op = "Jump" =>
                   (ip' = program[fetched' + 1].a /\ stack' = stack)
             /\ program[fetched' + 1].op # "Jump" =>
                   /\ stack' = ButLast(stack)
                   /\ ip' \in {program[fetched' + 1].a, fetched' + 1}
                   /\ Top(stack).t = "Bool" =>
                         (ip' = program[fetched' + 1].a
                             <=> (Top(stack).b <=> program[fetched' + 1].op = "JumpIf"))
       /\ (JumpedOut /\ IsStep) =>
             /\ result' = Ok("Stop")
             /\ fetched' = 0 - 1
             /\ errors' = <<>>
             /\ ~running'
             /\ UNCHANGED <<ip, stack, call_stack>>]_vars

\* step() returned Stop after a conditional jump beyond the end of the
\* program taken inside a group, the frame and the operands still there
C22_Witness ==
    /\ call.op = "step"
    /\ result = Ok("Stop")
    /\ ip > Len(program)
    /\ \E i \in 1..Len(program) : program[i].op \in {"JumpIf", "JumpUnless"}
    /\ call_stack # <<>>
    /\ stack # <<>>

====
